---- MODULE Spec2Model ----
(***************************************************************************)
(* Model of animation-translater (src/main.go): a script of show / hide /  *)
(* wait lines is tokenized, compiled to per-object opacity keyframes whose *)
(* stages are float32 percentages, rendered to a <style> block and spliced *)
(* into an SVG text.                                                       *)
(*                                                                         *)
(* Text is a sequence of atoms (TLA+ strings).  The script and the SVG are *)
(* sequences of one-character atoms; the CSS is a sequence of the pieces   *)
(* the templates write.                                                    *)
(***************************************************************************)
EXTENDS Integers, Sequences, FiniteSets, TLC

VARIABLES
    pc,        \* position in main
    crash,     \* the statement a run-time panic stopped the program at, or ""
    nargs,     \* len(os.Args)
    scriptOk,  \* whether os.ReadFile(inputAnimation) succeeded
    script,    \* the lines of the animation file
    lines,     \* the lines reader.ReadLine has not returned yet
    tokens,
    step,
    totalMs,
    fused,     \* whether the build fuses x*y + z into one rounding
    keyframes,
    css,
    prevCss,   \* the CSS of the previous run of the emitter, <<>> before a re-run
    svgOk,     \* whether os.ReadFile(inputSvgFile) succeeded
    svgData,
    svg,
    written    \* whether the output file has been written

vars == <<pc, crash, nargs, scriptOk, script, lines, tokens, step, totalMs,
          fused, keyframes, css, prevCss, svgOk, svgData, svg, written>>

\* Longest script, in lines.
MaxLines == 3

\* const block of main.go
show == 0
hide == 1
wait == 2
defaultWait == 1000

(***************************************************************************)
(* strings: HasPrefix, Split, Index, Atoi                                  *)
(***************************************************************************)

\* strings.HasPrefix(s, prefix)
HasPrefix(s, prefix) ==
    /\ Len(s) >= Len(prefix)
    /\ SubSeq(s, 1, Len(prefix)) = prefix

\* Position (1-based) of the first sep in s at or after from, 0 when none.
RECURSIVE IndexFrom(_, _, _)
IndexFrom(s, sep, from) ==
    IF from + Len(sep) - 1 > Len(s) THEN 0
    ELSE IF SubSeq(s, from, from + Len(sep) - 1) = sep THEN from
    ELSE IndexFrom(s, sep, from + 1)

\* strings.Index(s, substr), 0-based as in Go: -1 when substr is absent.
Index(s, substr) == IndexFrom(s, substr, 1) - 1

\* strings.Split(s, " "): the fields between single spaces; a text without a
\* space is one field.
RECURSIVE Split(_)
Split(s) ==
    LET i == IndexFrom(s, <<" ">>, 1)
    IN  IF i = 0 THEN <<s>>
        ELSE <<SubSeq(s, 1, i - 1)>> \o Split(SubSeq(s, i + 1, Len(s)))

Digits == <<"0", "1", "2", "3", "4", "5", "6", "7", "8", "9">>

DigitVal(c) == (CHOOSE d \in 1..10 : Digits[d] = c) - 1

IsDigit(c) == \E d \in 1..10 : Digits[d] = c

RECURSIVE DecimalVal(_)
DecimalVal(s) ==
    IF s = <<>> THEN 0
    ELSE 10 * DecimalVal(SubSeq(s, 1, Len(s) - 1)) + DigitVal(s[Len(s)])

\* strconv.Atoi on a text of the script alphabet (no sign characters): the
\* value and whether an error is returned; the value is 0 with a syntax error.
Atoi(s) ==
    IF s # <<>> /\ \A i \in 1..Len(s) : IsDigit(s[i])
    THEN [val |-> DecimalVal(s), err |-> FALSE]
    ELSE [val |-> 0, err |-> TRUE]

(***************************************************************************)
(* float32: IEEE 754 binary32, round to nearest even.  A finite value is   *)
(* m * 2^e with m = 0 or 2^23 <= m < 2^24.  The scripts carry no minus     *)
(* sign, so no value is negative and the sign bit is left out; exponents   *)
(* stay far from the subnormal and overflow ranges.                        *)
(***************************************************************************)

MantMin == 2^23
MantMax == 2^24

F32(m, e) == [k |-> "fin", m |-> m, e |-> e]
F32Zero == [k |-> "fin", m |-> 0, e |-> 0]
F32Inf == [k |-> "inf", m |-> 0, e |-> 0]
F32NaN == [k |-> "nan", m |-> 0, e |-> 0]

IsFin(a) == a.k = "fin"
IsZero(a) == a.k = "fin" /\ a.m = 0

\* Shift m up until it has 24 bits.
RECURSIVE Normalize(_, _)
Normalize(m, e) ==
    IF m = 0 THEN F32Zero
    ELSE IF m >= MantMin THEN F32(m, e)
    ELSE Normalize(2 * m, e - 1)

\* float32(n) for an int 0 <= n < 2^24 (exact; the totals of the scripts stay
\* below)
F32FromInt(n) == Normalize(n, 0)

\* Round m (24 bits) with the dropped part rem out of 2*half, sticky telling
\* that more non-zero bits lie below rem: nearest, ties to even.
RoundEven(m, e, rem, half, sticky) ==
    LET up == \/ rem > half
              \/ rem = half /\ sticky
              \/ rem = half /\ ~sticky /\ m % 2 = 1
        r == IF up THEN m + 1 ELSE m
    IN  IF r = MantMax THEN F32(MantMin, e + 1) ELSE F32(r, e)

\* n more quotient bits of r / d by long division: <<quotient, remainder>>.
RECURSIVE LongDiv(_, _, _, _)
LongDiv(r, d, q, n) ==
    IF n = 0 THEN <<q, r>>
    ELSE IF 2 * r >= d THEN LongDiv(2 * r - d, d, 2 * q + 1, n - 1)
    ELSE LongDiv(2 * r, d, 2 * q, n - 1)

\* a / b
F32Div(a, b) ==
    IF a.k = "nan" \/ b.k = "nan" THEN F32NaN
    ELSE IF a.k = "inf" THEN (IF b.k = "inf" THEN F32NaN ELSE F32Inf)
    ELSE IF b.k = "inf" THEN F32Zero
    ELSE IF b.m = 0 THEN (IF a.m = 0 THEN F32NaN ELSE F32Inf)
    ELSE IF a.m = 0 THEN F32Zero
    ELSE LET ge == a.m >= b.m
             qr == IF ge THEN LongDiv(a.m - b.m, b.m, 1, 24)
                   ELSE LongDiv(a.m, b.m, 0, 25)
             q  == qr[1]
             e  == a.e - b.e - (IF ge THEN 23 ELSE 24)
         IN  RoundEven(q \div 2, e, q % 2, 1, qr[2] # 0)

\* a * b; the 48-bit product of the mantissas is kept as hi * 2^24 + lo
F32Mul(a, b) ==
    IF a.k = "nan" \/ b.k = "nan" THEN F32NaN
    ELSE IF a.k = "inf" \/ b.k = "inf"
         THEN (IF IsZero(a) \/ IsZero(b) THEN F32NaN ELSE F32Inf)
    ELSE IF a.m = 0 \/ b.m = 0 THEN F32Zero
    ELSE LET a1 == a.m \div 2^12
             a0 == a.m % 2^12
             b1 == b.m \div 2^12
             b0 == b.m % 2^12
             mid == a1 * b0 + a0 * b1
             low == (mid % 2^12) * 2^12 + a0 * b0
             hi == a1 * b1 + mid \div 2^12 + low \div 2^24
             lo == low % 2^24
         IN  IF hi >= MantMin
             THEN RoundEven(hi, a.e + b.e + 24, lo, MantMin, FALSE)
             ELSE RoundEven(2 * hi + lo \div MantMin, a.e + b.e + 23,
                            lo % MantMin, 2^22, FALSE)

\* a + b for finite a, b with a.e >= b.e and neither zero
AddAligned(a, b) ==
    LET d == a.e - b.e
    IN  IF d >= 25 THEN a
        ELSE LET bs == (4 * b.m) \div 2^d
                 sticky == (4 * b.m) % 2^d # 0
                 s == 4 * a.m + bs
             IN  IF s >= 2^26
                 THEN RoundEven(s \div 8, a.e + 1, s % 8, 4, sticky)
                 ELSE RoundEven(s \div 4, a.e, s % 4, 2, sticky)

\* a + b
F32Add(a, b) ==
    IF a.k = "nan" \/ b.k = "nan" THEN F32NaN
    ELSE IF a.k = "inf" \/ b.k = "inf" THEN F32Inf
    ELSE IF a.m = 0 THEN b
    ELSE IF b.m = 0 THEN a
    ELSE IF a.e >= b.e THEN AddAligned(a, b)
    ELSE AddAligned(b, a)

\* a <= b; every comparison with NaN is false
F32Le(a, b) ==
    IF a.k = "nan" \/ b.k = "nan" THEN FALSE
    ELSE IF b.k = "inf" THEN TRUE
    ELSE IF a.k = "inf" THEN FALSE
    ELSE IF a.m = 0 THEN TRUE
    ELSE IF b.m = 0 THEN FALSE
    ELSE a.e < b.e \/ (a.e = b.e /\ a.m <= b.m)

\* The 72-bit number <<l2, l1, l0>> (limbs of 24 bits) shifted right by k
\* bits: <<l2, l1, l0, sticky>>, sticky telling that non-zero bits fell off.
ShiftRight72(x, k) ==
    IF k >= 72 THEN <<0, 0, 0, TRUE>>
    ELSE LET j == k \div 24
             r == k % 24
             y == IF j = 0 THEN <<x[1], x[2], x[3], FALSE>>
                  ELSE IF j = 1 THEN <<0, x[1], x[2], x[3] # 0>>
                  ELSE <<0, 0, x[1], x[2] # 0 \/ x[3] # 0>>
         IN  <<y[1] \div 2^r,
               (y[1] % 2^r) * 2^(24 - r) + y[2] \div 2^r,
               (y[2] % 2^r) * 2^(24 - r) + y[3] \div 2^r,
               y[4] \/ y[3] % 2^r # 0>>

\* a * b + c with one rounding (a fused multiply-add), a, b, c finite and
\* not zero: the exact product and c are aligned in a 72-bit window.
FusedAligned(a, b, c) ==
    LET a1 == a.m \div 2^12
        a0 == a.m % 2^12
        b1 == b.m \div 2^12
        b0 == b.m % 2^12
        mid == a1 * b0 + a0 * b1
        low == (mid % 2^12) * 2^12 + a0 * b0
        hi == a1 * b1 + mid \div 2^12 + low \div 2^24
        lo == low % 2^24
        pe == a.e + b.e - 24
        ce == c.e - 48
        base == IF pe >= ce THEN pe ELSE ce
        p == ShiftRight72(<<hi, lo, 0>>, base - pe)
        q == ShiftRight72(<<c.m, 0, 0>>, base - ce)
        s0 == p[3] + q[3]
        s1 == p[2] + q[2] + s0 \div 2^24
        s2 == p[1] + q[1] + s1 \div 2^24
        l0 == s0 % 2^24
        l1 == s1 % 2^24
        sticky == p[4] \/ q[4] \/ l0 # 0
    IN  IF s2 >= MantMax
        THEN RoundEven(s2 \div 2, base + 49, (s2 % 2) * 2^24 + l1, 2^24, sticky)
        ELSE IF s2 >= MantMin
        THEN RoundEven(s2, base + 48, l1, MantMin, sticky)
        ELSE RoundEven(2 * s2 + l1 \div MantMin, base + 47,
                       l1 % MantMin, 2^22, sticky)

\* a * b + c rounded once
F32FMA(a, b, c) ==
    IF ~IsFin(a) \/ ~IsFin(b) \/ ~IsFin(c) \/ IsZero(a) \/ IsZero(b) \/ IsZero(c)
    THEN F32Add(c, F32Mul(a, b))
    ELSE FusedAligned(a, b, c)

(***************************************************************************)
(* Tokenizer                                                               *)
(***************************************************************************)

ShowWord == <<"s", "h", "o", "w">>
HideWord == <<"h", "i", "d", "e">>
WaitWord == <<"w", "a", "i", "t">>

\* The size of the buffer bufio.NewReader gives the reader.
BufSize == 4096

\* A line of the file is kept as a run of fill '/' bytes followed by text.
Line(text) == [fill |-> 0, text |-> text]

Bytes(l) == [i \in 1..l.fill |-> "/"] \o l.text

Size(l) == l.fill + Len(l.text)

\* The first n bytes of l, and l without them.
Take(l, n) ==
    IF l.fill >= n THEN [fill |-> n, text |-> <<>>]
    ELSE [fill |-> l.fill, text |-> SubSeq(l.text, 1, n - l.fill)]

Drop(l, n) ==
    IF l.fill >= n THEN [fill |-> l.fill - n, text |-> l.text]
    ELSE [fill |-> 0, text |-> SubSeq(l.text, n - l.fill + 1, Len(l.text))]

\* reader.ReadLine on a file whose first line is l: a line that fills the
\* buffer before its end is returned in pieces of the buffer's size (isPrefix,
\* which main drops).
TooLong(l) == Size(l) >= BufSize

NextPiece(l) == IF TooLong(l) THEN Take(l, BufSize) ELSE l

\* The lines a script is made of.
ScriptLines ==
    { Line(ShowWord \o <<" ", "a">>),
      Line(HideWord \o <<" ", "a">>),
      Line(ShowWord \o <<" ", "b">>),
      Line(WaitWord \o <<" ", "1", "0", "0", "0">>),
      Line(WaitWord \o <<" ", "7", "0", "0">>),
      Line(WaitWord \o <<" ", "0">>),
      Line(WaitWord \o <<" ", "x">>),
      Line(ShowWord),
      Line(<<"/", "/", " ", "c">>),
      [fill |-> BufSize, text |-> WaitWord \o <<" ", "7", "0", "0">>] }

Scripts == UNION { [1..n -> ScriptLines] : n \in 0..MaxLines }

\* tokens[1] of the parse functions is evaluated on a one-field line: the
\* index is out of range and the program panics.
MissingField(line) == Len(Split(line)) < 2

parseShow(line) ==
    [Type |-> show, Id |-> Split(line)[2], Wait |-> defaultWait]

parseHide(line) ==
    [Type |-> hide, Id |-> Split(line)[2], Wait |-> defaultWait]

\* The Atoi error is printed and the value Atoi returned is used.
parseWait(line) ==
    [Type |-> wait, Id |-> <<>>, Wait |-> Atoi(Split(line)[2]).val]

\* Whether one pass of the loop body of main panics on line.
LinePanics(line) ==
    /\ HasPrefix(line, ShowWord) \/ HasPrefix(line, HideWord)
          \/ HasPrefix(line, WaitWord)
    /\ MissingField(line)

\* The tokens one pass of the loop body of main appends for line.
LineTokens(line) ==
    (IF HasPrefix(line, ShowWord) THEN <<parseShow(line)>> ELSE <<>>)
    \o (IF HasPrefix(line, HideWord) THEN <<parseHide(line)>> ELSE <<>>)
    \o (IF HasPrefix(line, WaitWord) THEN <<parseWait(line)>> ELSE <<>>)

(***************************************************************************)
(* Timeline compiler                                                       *)
(***************************************************************************)

RECURSIVE SumWaits(_)
SumWaits(ts) ==
    IF ts = <<>> THEN 0
    ELSE (IF Head(ts).Type = wait THEN Head(ts).Wait ELSE 0) + SumWaits(Tail(ts))

\* calculateStep: <<step, totalMs>>
calculateStep(ts) ==
    LET total == SumWaits(ts)
    IN  <<F32Mul(F32Div(F32FromInt(1000), F32FromInt(total)), F32FromInt(100)),
          total>>

Keyframe(stage, opacity) == [Stage |-> stage, Opacity |-> opacity]

\* keyframes[id] = append(keyframes[id], kf); a missing key reads as nil
AppendTo(kfs, id, kf) ==
    [k \in DOMAIN kfs \cup {id} |->
        IF k = id
        THEN (IF id \in DOMAIN kfs THEN kfs[id] ELSE <<>>) \o <<kf>>
        ELSE kfs[k]]

\* The first reference to an id seeds its list.
Seed(kfs, t) ==
    IF t.Type \in {show, hide} /\ t.Id \notin DOMAIN kfs
    THEN AppendTo(kfs, t.Id, Keyframe(F32Zero, 0))
    ELSE kfs

\* currentStage += float32(t.Wait) / 1000.0 * step
Advance(cur, w, st, fma) ==
    LET q == F32Div(F32FromInt(w), F32FromInt(1000))
    IN  IF fma THEN F32FMA(q, st, cur) ELSE F32Add(cur, F32Mul(q, st))

\* KeyframeStep with a Wait that leaves nextStage as it was.
KeyframeStepStaleNext(s, t, st, fma) ==
    LET kfs == Seed(s.kfs, t)
    IN  IF t.Type = wait
        THEN [cur |-> Advance(s.cur, t.Wait, st, fma), next |-> s.next, kfs |-> kfs]
        ELSE IF t.Type = show
        THEN [s EXCEPT !.kfs = AppendTo(AppendTo(kfs, t.Id, Keyframe(s.cur, 0)),
                                        t.Id, Keyframe(s.next, 1))]
        ELSE [s EXCEPT !.kfs = AppendTo(AppendTo(kfs, t.Id, Keyframe(s.cur, 1)),
                                        t.Id, Keyframe(s.next, 0))]

\* One pass of the first loop of calculateKeyframes over token t; s holds
\* currentStage, nextStage and the map.
KeyframeStep(s, t, st, fma) ==
    LET kfs == Seed(s.kfs, t)
    IN  IF t.Type = wait
        THEN LET c == Advance(s.cur, t.Wait, st, fma)
             IN  [cur |-> c, next |-> F32Add(c, st), kfs |-> kfs]
        ELSE IF t.Type = show
        THEN [s EXCEPT !.kfs = AppendTo(AppendTo(kfs, t.Id, Keyframe(s.cur, 0)),
                                        t.Id, Keyframe(s.next, 1))]
        ELSE [s EXCEPT !.kfs = AppendTo(AppendTo(kfs, t.Id, Keyframe(s.cur, 1)),
                                        t.Id, Keyframe(s.next, 0))]

RECURSIVE KeyframeLoop(_, _, _, _)
KeyframeLoop(s, ts, st, fma) ==
    IF ts = <<>> THEN s
    ELSE KeyframeLoop(KeyframeStep(s, Head(ts), st, fma), Tail(ts), st, fma)

\* CloseAll closing each list at the stage of its last keyframe.
CloseAllAtLastStage(kfs) ==
    [k \in DOMAIN kfs |->
        kfs[k] \o <<Keyframe(kfs[k][Len(kfs[k])].Stage,
                             kfs[k][Len(kfs[k])].Opacity)>>]

\* The second loop: every list gets the closing keyframe.
CloseAll(kfs) ==
    [k \in DOMAIN kfs |->
        kfs[k] \o <<Keyframe(F32FromInt(100), kfs[k][Len(kfs[k])].Opacity)>>]

calculateKeyframes(ts, st, fma) ==
    CloseAll(KeyframeLoop([cur |-> F32Zero, next |-> F32Add(F32Zero, st),
                           kfs |-> <<>>], ts, st, fma).kfs)

(***************************************************************************)
(* CSS emitter                                                             *)
(***************************************************************************)

\* {{ .Stage }}: one text per float32 value (mantissa p exponent)
FormatF32(a) ==
    IF a.k = "nan" THEN "NaN"
    ELSE IF a.k = "inf" THEN "+Inf"
    ELSE IF a.m = 0 THEN "0"
    ELSE ToString(a.m) \o "p" \o ToString(a.e)

RECURSIVE KeyframesText(_)
KeyframesText(v) ==
    IF v = <<>> THEN <<>>
    ELSE <<FormatF32(Head(v).Stage), "% { opacity: ", ToString(Head(v).Opacity),
           "; } ">> \o KeyframesText(Tail(v))

\* The two templates executed for object k with animation counter n.
ObjectCss(k, v, n, total) ==
    <<"#", "cell-">> \o k
    \o <<" { animation: ", "anim", ToString(n), " ", ToString(total),
         "ms linear infinite normal forwards; } ">>
    \o <<"@keyframes ", "anim", ToString(n), " { ">>
    \o KeyframesText(v) \o <<"}">>

\* The orders in which range may visit the keys of a map.
RangeOrders(m) ==
    { o \in [1..Cardinality(DOMAIN m) -> DOMAIN m] :
        \A i, j \in DOMAIN o : i # j => o[i] # o[j] }

RECURSIVE EmitFrom(_, _, _, _)
EmitFrom(kfs, total, order, i) ==
    IF i > Len(order) THEN <<>>
    ELSE ObjectCss(order[i], kfs[order[i]], i - 1, total)
         \o EmitFrom(kfs, total, order, i + 1)

\* generateCssAnimation, range visiting the keys in order
generateCssAnimation(kfs, total, order) ==
    <<"<style>">> \o EmitFrom(kfs, total, order, 1) \o <<"</style>">>

SvgWord == <<"<", "s", "v", "g">>

\* The index addCssToSvg stops its scan at ('>' found), 1-based; 0 when the
\* scan leaves the text: svg[-1] when "<svg" is absent, svg[len(svg)] when no
\* '>' follows it.
ScanStop(text) ==
    IF Index(text, SvgWord) = -1 THEN 0
    ELSE IndexFrom(text, <<">">>, Index(text, SvgWord) + 1)

addCssToSvg(text, style) ==
    SubSeq(text, 1, ScanStop(text)) \o style
    \o SubSeq(text, ScanStop(text) + 1, Len(text))

\* The SVG files the program is run on.
SvgTexts ==
    { <<>>,
      <<"x">>,
      SvgWord,
      SvgWord \o <<">", "<", "/", "s", "v", "g", ">">>,
      <<"<", "a", ">">> \o SvgWord \o <<" ", "b", ">", "c">> }

(***************************************************************************)
(* main                                                                    *)
(***************************************************************************)

Init ==
    /\ pc = "args"
    /\ crash = ""
    /\ nargs = 0
    /\ scriptOk = FALSE
    /\ script = <<>>
    /\ lines = <<>>
    /\ tokens = <<>>
    /\ step = F32Zero
    /\ totalMs = 0
    /\ fused = FALSE
    /\ keyframes = <<>>
    /\ css = <<>>
    /\ prevCss = <<>>
    /\ svgOk = FALSE
    /\ svgData = <<>>
    /\ svg = <<>>
    /\ written = FALSE

\* len(os.Args): 1 and 2 fail the argument check, 3 passes it without an
\* os.Args[3], 4 is the complete command line.
ArgCounts == {1, 2, 3, 4}

\* The argument check: fewer than 3 entries print the usage and return;
\* exactly 3 pass the check and os.Args[3] is out of range.
CheckArgs ==
    /\ pc = "args"
    /\ \E n \in ArgCounts :
          /\ nargs' = n
          /\ pc' = IF n < 3 THEN "exit" ELSE IF n = 3 THEN "panic" ELSE "readScript"
          /\ crash' = IF n = 3 THEN "os.Args[3]" ELSE ""
    /\ UNCHANGED <<scriptOk, script, lines, tokens, step, totalMs, fused,
                   keyframes, css, prevCss, svgOk, svgData, svg, written>>

\* data, _ := os.ReadFile(inputAnimation): a failed read leaves data empty.
ReadAnimation ==
    /\ pc = "readScript"
    /\ \E ok \in BOOLEAN, s \in Scripts :
          /\ ok \/ s = <<>>
          /\ scriptOk' = ok
          /\ script' = s
          /\ lines' = s
    /\ pc' = "tokenize"
    /\ UNCHANGED <<crash, nargs, tokens, step, totalMs, fused, keyframes, css,
                   prevCss, svgOk, svgData, svg, written>>

\* One pass of the tokenizer loop on the next line.
ReadLine ==
    /\ pc = "tokenize"
    /\ lines # <<>>
    /\ IF LinePanics(Bytes(NextPiece(Head(lines))))
       THEN /\ pc' = "panic"
            /\ crash' = "tokens[1]"
            /\ UNCHANGED <<lines, tokens>>
       ELSE /\ tokens' = tokens \o LineTokens(Bytes(NextPiece(Head(lines))))
            /\ lines' = IF TooLong(Head(lines))
                        THEN <<Drop(Head(lines), BufSize)>> \o Tail(lines)
                        ELSE Tail(lines)
            /\ UNCHANGED <<pc, crash>>
    /\ UNCHANGED <<nargs, scriptOk, script, step, totalMs, fused, keyframes,
                   css, prevCss, svgOk, svgData, svg, written>>

\* reader.ReadLine returns io.EOF: the loop ends.
EndOfFile ==
    /\ pc = "tokenize"
    /\ lines = <<>>
    /\ pc' = "calcStep"
    /\ UNCHANGED <<crash, nargs, scriptOk, script, lines, tokens, step, totalMs,
                   fused, keyframes, css, prevCss, svgOk, svgData, svg, written>>

CalculateStep ==
    /\ pc = "calcStep"
    /\ step' = calculateStep(tokens)[1]
    /\ totalMs' = calculateStep(tokens)[2]
    /\ pc' = "calcKeyframes"
    /\ UNCHANGED <<crash, nargs, scriptOk, script, lines, tokens, fused,
                   keyframes, css, prevCss, svgOk, svgData, svg, written>>

CalculateKeyframes ==
    /\ pc = "calcKeyframes"
    /\ \E f \in BOOLEAN :
          /\ fused' = f
          /\ keyframes' = calculateKeyframes(tokens, step, f)
    /\ pc' = "genCss"
    /\ UNCHANGED <<crash, nargs, scriptOk, script, lines, tokens, step, totalMs,
                   css, prevCss, svgOk, svgData, svg, written>>

GenerateCss ==
    /\ pc = "genCss"
    /\ \E o \in RangeOrders(keyframes) :
          css' = generateCssAnimation(keyframes, totalMs, o)
    /\ pc' = "readSvg"
    /\ UNCHANGED <<crash, nargs, scriptOk, script, lines, tokens, step, totalMs,
                   fused, keyframes, prevCss, svgOk, svgData, svg, written>>

\* svgData, _ := os.ReadFile(inputSvgFile): a failed read leaves it empty.
ReadSvg ==
    /\ pc = "readSvg"
    /\ \E ok \in BOOLEAN, text \in SvgTexts :
          /\ ok \/ text = <<>>
          /\ svgOk' = ok
          /\ svgData' = text
    /\ pc' = "addCss"
    /\ UNCHANGED <<crash, nargs, scriptOk, script, lines, tokens, step, totalMs,
                   fused, keyframes, css, prevCss, svg, written>>

AddCssToSvg ==
    /\ pc = "addCss"
    /\ IF ScanStop(svgData) = 0
       THEN /\ pc' = "panic"
            /\ crash' = "svg[index]"
            /\ UNCHANGED svg
       ELSE /\ svg' = addCssToSvg(svgData, css)
            /\ pc' = "write"
            /\ UNCHANGED crash
    /\ UNCHANGED <<nargs, scriptOk, script, lines, tokens, step, totalMs, fused,
                   keyframes, css, prevCss, svgOk, svgData, written>>

\* os.WriteFile(outputSvgFile, ...): its error is dropped and main returns.
WriteFile ==
    /\ pc = "write"
    /\ \E ok \in BOOLEAN : written' = ok
    /\ pc' = "exit"
    /\ UNCHANGED <<crash, nargs, scriptOk, script, lines, tokens, step, totalMs,
                   fused, keyframes, css, prevCss, svgOk, svgData, svg>>

Next ==
    \/ CheckArgs
    \/ ReadAnimation
    \/ ReadLine
    \/ EndOfFile
    \/ CalculateStep
    \/ CalculateKeyframes
    \/ GenerateCss
    \/ ReadSvg
    \/ AddCssToSvg
    \/ WriteFile

Spec == Init /\ [][Next]_vars

\* The emitter run a second time on the same timeline.
Rerun ==
    /\ pc = "readSvg"
    /\ prevCss = <<>>
    /\ prevCss' = css
    /\ \E o \in RangeOrders(keyframes) :
          css' = generateCssAnimation(keyframes, totalMs, o)
    /\ UNCHANGED <<pc, crash, nargs, scriptOk, script, lines, tokens, step,
                   totalMs, fused, keyframes, svgOk, svgData, svg, written>>

NextTwoRuns == Next \/ Rerun

SpecTwoRuns == Init /\ [][NextTwoRuns]_vars

(***************************************************************************)
(* Properties                                                              *)
(***************************************************************************)

\* calculateStep has returned.
StepDone ==
    \/ pc \in {"calcKeyframes", "genCss", "readSvg", "addCss", "write"}
    \/ pc = "exit" /\ nargs > 3
    \/ pc = "panic" /\ crash = "svg[index]"

\* calculateKeyframes has just returned; main does not assign keyframes again.
KeyframesDone == pc = "genCss"

\* The ids the tokens reference by a Show or a Hide.
Referenced ==
    { tokens[i].Id : i \in { j \in 1..Len(tokens) : tokens[j].Type \in {show, hide} } }

Hundred == F32FromInt(100)

\* C1: every object id referenced by a Show or Hide has a non-empty keyframe
\* list whose first entry has stage 0 and whose last entry has stage 100.
C1_FirstStage0LastStage100 ==
    KeyframesDone =>
        \A id \in Referenced :
            /\ id \in DOMAIN keyframes
            /\ Len(keyframes[id]) > 0
            /\ keyframes[id][1].Stage = F32Zero
            /\ keyframes[id][Len(keyframes[id])].Stage = Hundred

C1_Witness ==
    /\ KeyframesDone
    /\ Cardinality(Referenced) = 2
    /\ \E id \in Referenced :
          /\ Len(keyframes[id]) = 4
          /\ keyframes[id][3].Stage # Hundred

\* C2: with a positive total wait duration the stages of each object's
\* keyframes are non-decreasing in stored order.
C2_StagesNonDecreasing ==
    (KeyframesDone /\ totalMs > 0) =>
        \A id \in DOMAIN keyframes :
            \A i \in 1..(Len(keyframes[id]) - 1) :
                F32Le(keyframes[id][i].Stage, keyframes[id][i + 1].Stage)

\* C3: with a positive total wait duration every keyframe has a stage within
\* [0, 100].
C3_StagesWithin0And100 ==
    (KeyframesDone /\ totalMs > 0) =>
        \A id \in DOMAIN keyframes :
            \A i \in 1..Len(keyframes[id]) :
                /\ F32Le(F32Zero, keyframes[id][i].Stage)
                /\ F32Le(keyframes[id][i].Stage, Hundred)

\* C4: a zero total wait duration ends the compilation in an error: the run
\* never goes on from calculateStep with a step value, to keyframes or CSS.
C4_ZeroTotalEndsInError ==
    ~(StepDone /\ totalMs = 0)

\* C5: without "<svg" in the SVG text addCssToSvg ends in an error outcome and
\* does not index outside the text; with it, the result is the text with the
\* style block right after the first '>' that follows the first "<svg".
C5_InjectionErrorOrInsertion ==
    /\ Index(svgData, SvgWord) = -1 => crash # "svg[index]"
    /\ (pc \in {"write", "exit"} /\ nargs > 3) =>
          \E g \in 1..Len(svgData) :
              /\ svgData[g] = ">"
              /\ g > Index(svgData, SvgWord) + Len(SvgWord)
              /\ \A h \in (Index(svgData, SvgWord) + 1)..(g - 1) : svgData[h] # ">"
              /\ svg = SubSeq(svgData, 1, g) \o css \o SubSeq(svgData, g + 1, Len(svgData))

\* C6: two runs of the emitter on the same timeline produce the same CSS: the
\* same order of objects and the same animation name for each object id.
C6_SameCssOnRerun ==
    (prevCss # <<>> /\ totalMs > 0) => css = prevCss

\* The numbers of the wait lines of a script, summed line by line.
RECURSIVE WaitLineTotal(_)
WaitLineTotal(sc) ==
    IF sc = <<>> THEN 0
    ELSE (IF HasPrefix(Bytes(Head(sc)), WaitWord)
          THEN Atoi(Split(Bytes(Head(sc)))[2]).val ELSE 0)
         + WaitLineTotal(Tail(sc))

Recognized(line) ==
    HasPrefix(line, ShowWord) \/ HasPrefix(line, HideWord) \/ HasPrefix(line, WaitWord)

\* C7: totalMs is the exact sum of the durations of the wait lines; a line
\* with none of the three prefixes produces no instruction, and show / hide
\* instructions (Wait = 1000) add nothing.
C7_TotalIsSumOfWaits ==
    StepDone =>
        /\ totalMs = WaitLineTotal(script)
        /\ Len(tokens) =
              Cardinality({ i \in 1..Len(script) : Recognized(Bytes(script[i])) })

\* C8: a show / hide / wait line without a second field ends the tokenizer in
\* a ParseError; the tokenizer never crashes on it.
C8_NoCrashOnMissingField ==
    crash # "tokens[1]"

\* The conditions the run is to fail on.
FatalInput ==
    \/ ~scriptOk
    \/ ~svgOk
    \/ totalMs = 0
    \/ Index(svgData, SvgWord) = -1

\* C9: on a run with an unreadable script or SVG file, a zero total wait
\* duration or no "<svg" tag, the output file is never written.
C9_NoOutputOnFatalError ==
    written => ~FatalInput

(***************************************************************************)
(* C10: the reference keyframe lists                                       *)
(***************************************************************************)

\* The sum of the waits among the first n tokens.
WaitsBefore(ts, n) == SumWaits(SubSeq(ts, 1, n))

\* The cursor as C10 words it: the sum of the preceding waits divided by
\* 1000, times step.
ClosedCursor(ts, n, st) ==
    F32Mul(F32Div(F32FromInt(WaitsBefore(ts, n)), F32FromInt(1000)), st)

\* The cursor as the running float32 sum: each preceding Wait d, in order, adds
\* float32(d) / 1000 * step.
RECURSIVE RunningCursor(_, _, _, _)
RunningCursor(ts, n, st, fma) ==
    IF n = 0 THEN F32Zero
    ELSE LET c == RunningCursor(ts, n - 1, st, fma)
             q == F32Div(F32FromInt(ts[n].Wait), F32FromInt(1000))
         IN  IF ts[n].Type # wait THEN c
             ELSE IF fma THEN F32FMA(q, st, c)
             ELSE F32Add(c, F32Mul(q, st))

\* The pairs of the Show / Hide tokens of id among tokens n.., c[i] being the
\* cursor after the first i tokens.
RECURSIVE RefPairs(_, _, _, _, _)
RefPairs(ts, id, n, st, c) ==
    IF n > Len(ts) THEN <<>>
    ELSE (IF ts[n].Type = show /\ ts[n].Id = id
          THEN <<Keyframe(c[n - 1], 0), Keyframe(F32Add(c[n - 1], st), 1)>>
          ELSE IF ts[n].Type = hide /\ ts[n].Id = id
          THEN <<Keyframe(c[n - 1], 1), Keyframe(F32Add(c[n - 1], st), 0)>>
          ELSE <<>>)
         \o RefPairs(ts, id, n + 1, st, c)

RefList(ts, id, st, c) ==
    LET body == <<Keyframe(F32Zero, 0)>> \o RefPairs(ts, id, 1, st, c)
    IN  body \o <<Keyframe(Hundred, body[Len(body)].Opacity)>>

\* C10 as stated: each object's list is the reference list with
\* c = (sum of the preceding waits) / 1000 * step.
C10_ReferenceClosedCursor ==
    (KeyframesDone /\ totalMs > 0) =>
        /\ DOMAIN keyframes = Referenced
        /\ \A id \in Referenced :
              keyframes[id] =
                  RefList(tokens, id, step,
                          [n \in 0..Len(tokens) |-> ClosedCursor(tokens, n, step)])

\* C10, amended: each object's list is the reference list with c the running
\* float32 cursor, to which each preceding Wait d added float32(d)/1000*step.
C10_ReferenceRunningCursor ==
    (KeyframesDone /\ totalMs > 0) =>
        /\ DOMAIN keyframes = Referenced
        /\ \A id \in Referenced :
              keyframes[id] =
                  RefList(tokens, id, step,
                          [n \in 0..Len(tokens) |->
                              RunningCursor(tokens, n, step, fused)])

C10_Witness ==
    /\ KeyframesDone
    /\ totalMs > 0
    /\ \E id \in Referenced :
          /\ Len(keyframes[id]) = 6
          /\ keyframes[id][4].Stage # F32Zero
          /\ keyframes[id][6].Opacity = 0

====
